---- MODULE Spec2Model ----
(***************************************************************************)
(* volume-notifier: one invocation of main() per process, all invocations  *)
(* sharing the record file at db_path and its advisory (flock) lock.       *)
(*                                                                         *)
(* Text is a sequence of one-character strings (a few opaque multi-        *)
(* character tokens stand for whole words where only equality matters).    *)
(* Option<T> is a sequence of length at most one: None == <<>>,            *)
(* Some(v) == <<v>>.                                                       *)
(***************************************************************************)
EXTENDS Integers, Sequences, FiniteSets, TLC

\* Number of concurrently launched invocations.
NumProcs == 2

Procs == 1..NumProcs

\* i32 range (read_db and the notification identifier are parsed as i32).
I32Max == 2147483647
I32Min == (-I32Max) - 1

None == <<>>
Some(v) == <<v>>

(***************************************************************************)
(* str::trim, str::parse::<i32>, format!("{}", i32)                        *)
(***************************************************************************)
Whitespace == {" ", "\n"}

DigitChars == <<"0", "1", "2", "3", "4", "5", "6", "7", "8", "9">>

IsDigit(c) == \E i \in 1..10 : DigitChars[i] = c

DigitVal(c) == (CHOOSE i \in 1..10 : DigitChars[i] = c) - 1

RECURSIVE TrimStart(_)
TrimStart(s) ==
    IF s = <<>> THEN s
    ELSE IF Head(s) \in Whitespace THEN TrimStart(Tail(s)) ELSE s

RECURSIVE TrimEnd(_)
TrimEnd(s) ==
    IF s = <<>> THEN s
    ELSE IF s[Len(s)] \in Whitespace THEN TrimEnd(SubSeq(s, 1, Len(s) - 1)) ELSE s

Trim(s) == TrimEnd(TrimStart(s))

\* Accumulate the digits of s onto acc with checked arithmetic, adding for a
\* positive number and subtracting for a negative one; <<>> is the parse error.
RECURSIVE ParseDigits(_, _, _)
ParseDigits(s, acc, neg) ==
    IF s = <<>> THEN Some(acc)
    ELSE IF ~IsDigit(Head(s)) THEN None
    ELSE LET d == DigitVal(Head(s)) IN
         IF neg
         THEN IF acc < (I32Min + d + 9) \div 10 THEN None
              ELSE ParseDigits(Tail(s), acc * 10 - d, neg)
         ELSE IF acc > (I32Max - d) \div 10 THEN None
              ELSE ParseDigits(Tail(s), acc * 10 + d, neg)

\* <i32 as FromStr>::from_str: Some(n), or None for Err(ParseIntError).
ParseI32(s) ==
    IF s = <<>> THEN None
    ELSE IF Head(s) \in {"+", "-"}
         THEN IF Len(s) = 1 THEN None
              ELSE ParseDigits(Tail(s), 0, Head(s) = "-")
         ELSE ParseDigits(s, 0, FALSE)

\* The decimal digits of -n, for n <= 0.
RECURSIVE NegDigits(_)
NegDigits(n) ==
    LET d == (10 - (n % 10)) % 10
        rest == (n + d) \div 10
    IN  IF rest = 0 THEN <<DigitChars[d + 1]>>
        ELSE NegDigits(rest) \o <<DigitChars[d + 1]>>

\* The pieces <i32 as Display>::fmt hands to the writer: the sign, if any, and
\* the digits, each with a write_str of its own.
FormatPieces(n) ==
    IF n < 0 THEN << <<"-">>, NegDigits(n) >> ELSE << NegDigits(-n) >>

RECURSIVE Concat(_)
Concat(ss) == IF ss = <<>> THEN <<>> ELSE Head(ss) \o Concat(Tail(ss))

\* format!("{}", n)
Format(n) == Concat(FormatPieces(n))

(***************************************************************************)
(* Inputs: what the user and the external tools may hand to an invocation. *)
(***************************************************************************)
KnownTasks == {"up", "down", "mute", "noop"}

Tasks == KnownTasks \cup {"bogus"}

\* args.task is read once, by the match of get_command_or_die; afterwards
\* only the command it resolved to is used and the task name is forgotten.
Consumed == "-"

\* Defaults of --sink and --interval.
Sink == <<"@DEFAULT_SINK@">>

Interval == 512

\* How a child process may end: not started at all, or started and exited
\* with a status, its stdout valid UTF-8 or not.
ChildRuns ==
    { [launched |-> FALSE, status |-> 0, utf8 |-> TRUE],
      [launched |-> TRUE, status |-> 0, utf8 |-> TRUE],
      [launched |-> TRUE, status |-> 1, utf8 |-> TRUE],
      [launched |-> TRUE, status |-> 0, utf8 |-> FALSE] }

MuteYes == <<"Mute: yes">>

MuteNo == <<"Mute: no">>

\* stdout of `pactl get-sink-mute` in the runs of main(); get_icon is applied
\* to the other mute texts under SpecIcon.
MuteOutputs == { MuteNo \o <<"\n">> }

\* stdout of `pactl get-sink-volume`, as the percentages of the lines the
\* regex of parse_volume matches, in order (<<>>: no line matches).
VolumeOutputs == { <<>>, <<50, 70>> }

\* stdout of `notify-send -p`.
NotifyOutputs ==
    { <<"7", "\n">>,
      <<"8", "\n">>,
      <<"-", "3", "\n">>,
      <<"2", "1", "4", "7", "4", "8", "3", "6", "4", "8", "\n">>,
      <<>> }

\* What the record file may hold when the first invocation opens it.
InitialContents == { <<>>, <<"5">>, <<"\n">>, <<"x">> }

(***************************************************************************)
(* State                                                                   *)
(***************************************************************************)
VARIABLES
    content,     \* the bytes of the record file
    content0,    \* the record file's bytes before the first invocation
    lockHeld,    \* per invocation: the flock it holds on the record
    pc,          \* per invocation: the step of main() it is at
    task,        \* args.task, until line 129 has read it
    mute,        \* let mute (line 131)
    vol_pct,     \* let (vol_pct, channels) (line 133)
    channels,
    old_id,      \* let old_id (line 144)
    notif_cmd,   \* let notif_cmd (lines 156-163), once it has been run
    notif_out,   \* stdout of the notification command, once it has been run
    new_id,      \* let new_id (line 165)
    runs,        \* per invocation: the child processes it started, in order
    badExit,     \* per invocation whose children's exit statuses are recorded:
                 \* some child of it exited non-zero
    fx           \* a function of main.rs applied on its own: name, arguments, result

mainVars ==
    << content, content0, lockHeld, pc, task, mute, vol_pct, channels, old_id,
       notif_cmd, notif_out, new_id, runs, badExit >>

vars == << mainVars, fx >>

Ended == {"exit1", "panic", "err", "done"}

\* The exit status of an ended invocation: process::exit(1), a panic, an
\* Err returned from main, Ok(()).
ExitCode(p) ==
    CASE pc[p] = "exit1" -> 1
      [] pc[p] = "panic" -> 101
      [] pc[p] = "err" -> 1
      [] pc[p] = "done" -> 0
      [] OTHER -> -1

(***************************************************************************)
(* The functions of main.rs                                                *)
(***************************************************************************)
\* A match whose last arm falls back to the no-op command.
get_command_or_die_lenient(t) ==
    CASE t = "up" ->
            Some(<< <<"pactl">>, <<"set-sink-volume">>, Sink,
                    <<"+">> \o Format(Interval) >>)
      [] t = "down" ->
            Some(<< <<"pactl">>, <<"set-sink-volume">>, Sink,
                    <<"-">> \o Format(Interval) >>)
      [] t = "mute" ->
            Some(<< <<"pactl">>, <<"set-sink-mute">>, Sink, <<"toggle">> >>)
      [] OTHER -> Some(<< <<"true">> >>)

\* Args::get_command_or_die: Some(command), or None for process::exit(1).
get_command_or_die(t) ==
    CASE t = "up" ->
            Some(<< <<"pactl">>, <<"set-sink-volume">>, Sink,
                    <<"+">> \o Format(Interval) >>)
      [] t = "down" ->
            Some(<< <<"pactl">>, <<"set-sink-volume">>, Sink,
                    <<"-">> \o Format(Interval) >>)
      [] t = "mute" ->
            Some(<< <<"pactl">>, <<"set-sink-mute">>, Sink, <<"toggle">> >>)
      [] t = "noop" -> Some(<< <<"true">> >>)
      [] OTHER -> None

\* run_or_die: Some(trimmed stdout), or None for a panic. The exit status of
\* the child is not looked at.
run_or_die(run, stdout) ==
    IF ~run.launched THEN None
    ELSE IF ~run.utf8 THEN None
    ELSE Some(Trim(stdout))

RECURSIVE Sum(_)
Sum(s) == IF s = <<>> THEN 0 ELSE Head(s) + Sum(Tail(s))

\* A parse_volume that rounds the mean to the nearest integer.
parse_volume_rounded(pcts) ==
    IF Len(pcts) = 0 THEN None
    ELSE Some(<<(Sum(pcts) + Len(pcts) \div 2) \div Len(pcts), pcts>>)

\* parse_volume: Some(<<total / count, matched lines>>), or None for the
\* division by zero. A matched line is kept as the percentage it carries.
parse_volume(pcts) ==
    IF Len(pcts) = 0 THEN None ELSE Some(<<Sum(pcts) \div Len(pcts), pcts>>)

\* Lines 151-154: "- " before every matched line, joined by newlines.
RECURSIVE channel_lines(_)
channel_lines(chs) ==
    IF chs = <<>> THEN <<>>
    ELSE <<"-", " ">> \o Format(Head(chs)) \o <<"%">>
            \o (IF Len(chs) > 1 THEN <<"\n">> \o channel_lines(Tail(chs)) ELSE <<>>)

\* Ranges that end one too far: 1..=33 and 34..=66.
get_icon_inclusive(mutestr, percent) ==
    IF mutestr = MuteYes THEN "audio-volume-muted"
    ELSE CASE percent = 0 -> "audio-volume-muted"
           [] percent >= 1 /\ percent <= 33 -> "audio-volume-low"
           [] percent > 33 /\ percent <= 66 -> "audio-volume-medium"
           [] OTHER -> "audio-volume-high"

get_icon(mutestr, percent) ==
    IF mutestr = MuteYes THEN "audio-volume-muted"
    ELSE CASE percent = 0 -> "audio-volume-muted"
           [] percent >= 1 /\ percent < 33 -> "audio-volume-low"
           [] percent >= 33 /\ percent < 66 -> "audio-volume-medium"
           [] OTHER -> "audio-volume-high"

\* A read_db that finds every record empty.
read_db_blank(c) == Some(None)

\* A read_db that takes a record it cannot parse for an empty one.
read_db_lenient(c) ==
    LET trimmed == Trim(c) IN
    IF Len(trimmed) = 0 THEN Some(None)
    ELSE LET r == ParseI32(trimmed) IN
         IF r = None THEN Some(None) ELSE Some(Some(r[1]))

\* read_db after a successful read_to_string: Some(Option<i32>), or None for
\* the panic of expect("Failed to parse DB").
read_db(c) ==
    LET trimmed == Trim(c) IN
    IF Len(trimmed) = 0 THEN Some(None)
    ELSE LET r == ParseI32(trimmed) IN
         IF r = None THEN None ELSE Some(Some(r[1]))

\* The read of line 148, after the exclusive lock was granted.
read_escalated_stale(c) == Some(None)

read_escalated(c) == read_db(c)

\* Line 167: whether write_db is called.
writes_always(old) == TRUE

writes_db(old) == old = None

\* A write_db that does not truncate.
set_len0_skipped(c) == c

\* File::set_len(0)
set_len0(c) == <<>>

\* writeln! in place of write!.
append_line(c, piece) == c \o piece \o <<"\n">>

\* One write(2) on the record, which is open with O_APPEND.
append(c, piece) == c \o piece

\* Lines 156-163: the notification command line, without the replace flag.
build_notif_cmd_fresh(m, pct, chs, old) ==
    << <<"notify-send">>, <<"Volume">>, m \o <<"\n">> \o channel_lines(chs),
       <<"-p">>, <<"-i">>, <<get_icon(m, pct)>> >>

\* Lines 156-163: the notification command line.
build_notif_cmd(m, pct, chs, old) ==
    << <<"notify-send">>, <<"Volume">>, m \o <<"\n">> \o channel_lines(chs),
       <<"-p">>, <<"-i">>, <<get_icon(m, pct)>> >>
        \o (IF old = None THEN <<>> ELSE << <<"-r">>, Format(old[1]) >>)

(***************************************************************************)
(* flock(2) on the record                                                  *)
(***************************************************************************)
\* A lock that never makes anybody wait.
Conflicts_Never(p, mode) == FALSE

\* A lock whose shared holders do not hold up an exclusive request.
Conflicts_ExclOnly(p, mode) == \E q \in Procs \ {p} : lockHeld[q] = "exclusive"

\* A lock whose shared requests are never held up, whoever holds it.
Conflicts_SharedFree(p, mode) ==
    mode = "exclusive" /\ \E q \in Procs \ {p} : lockHeld[q] # "none"

\* Whether a request of p for a lock of the given mode has to wait.
Conflicts(p, mode) ==
    \E q \in Procs \ {p} :
        \/ lockHeld[q] = "exclusive"
        \/ mode = "exclusive" /\ lockHeld[q] = "shared"

\* A lock that outlives the invocation that took it.
ReleasedAtExit_Kept(held) == held

\* The lock an invocation holds after it has ended: the file is closed.
ReleasedAtExit(held) == "none"

Goto(p, where) == pc' = [pc EXCEPT ![p] = where]

\* The invocation ends: its descriptor is closed and with it its lock.
End(p, how) ==
    /\ pc' = [pc EXCEPT ![p] = how]
    /\ lockHeld' = [lockHeld EXCEPT ![p] = ReleasedAtExit(lockHeld[p])]

\* Command::output() of a child of the given kind.
Started(p, kind, run) ==
    /\ runs' = [runs EXCEPT ![p] = IF run.launched THEN Append(@, kind) ELSE @]
    /\ badExit' = IF p \in DOMAIN badExit
                   THEN [badExit EXCEPT ![p] = @ \/ (run.launched /\ run.status # 0)]
                   ELSE badExit

(***************************************************************************)
(* main(), one action per blocking step                                    *)
(***************************************************************************)
\* Every invocation is about to run line 129; nothing is locked.
NotStarted ==
    /\ lockHeld = [p \in Procs |-> "none"]
    /\ pc = [p \in Procs |-> "start"]
    /\ mute = [p \in Procs |-> <<>>]
    /\ vol_pct = [p \in Procs |-> None]
    /\ channels = [p \in Procs |-> <<>>]
    /\ old_id = [p \in Procs |-> None]
    /\ notif_cmd = [p \in Procs |-> <<>>]
    /\ notif_out = [p \in Procs |-> None]
    /\ new_id = [p \in Procs |-> None]
    /\ runs = [p \in Procs |-> <<>>]

Init ==
    /\ content0 \in InitialContents
    /\ content = content0
    /\ task \in [Procs -> Tasks]
    /\ NotStarted
    /\ badExit = <<>>
    /\ fx = <<>>

\* As Init, with the exit statuses of every invocation's children recorded.
ExitInit ==
    /\ content0 \in InitialContents
    /\ content = content0
    /\ task \in [Procs -> Tasks]
    /\ NotStarted
    /\ badExit = [p \in Procs |-> FALSE]
    /\ fx = <<>>

\* A main() that opens the record right after the action command, before the
\* mute and volume queries.
RunAction_ThenOpen(p) ==
    /\ pc[p] = "start"
    /\ LET cmd == get_command_or_die(task[p]) IN
       IF cmd = None
       THEN /\ End(p, "exit1")
            /\ UNCHANGED <<runs, badExit>>
       ELSE \E run \in ChildRuns :
                /\ Started(p, "action", run)
                /\ IF run_or_die(run, <<>>) = None
                   THEN End(p, "panic")
                   ELSE Goto(p, "open") /\ UNCHANGED lockHeld
    /\ task' = [task EXCEPT ![p] = Consumed]
    /\ UNCHANGED << content, content0, mute, vol_pct, channels, old_id,
                    notif_cmd, notif_out, new_id, fx >>

\* Line 129: resolve the task and run its command.
RunAction(p) ==
    /\ pc[p] = "start"
    /\ LET cmd == get_command_or_die(task[p]) IN
       IF cmd = None
       THEN /\ End(p, "exit1")
            /\ UNCHANGED <<runs, badExit>>
       ELSE \E run \in ChildRuns :
                /\ Started(p, "action", run)
                /\ IF run_or_die(run, <<>>) = None
                   THEN End(p, "panic")
                   ELSE Goto(p, "get_mute") /\ UNCHANGED lockHeld
    /\ task' = [task EXCEPT ![p] = Consumed]
    /\ UNCHANGED << content, content0, mute, vol_pct, channels, old_id,
                    notif_cmd, notif_out, new_id, fx >>

\* Line 131: pactl get-sink-mute.
QueryMute(p) ==
    /\ pc[p] = "get_mute"
    /\ \E run \in ChildRuns, out \in MuteOutputs :
           LET r == run_or_die(run, out) IN
           /\ Started(p, "get-sink-mute", run)
           /\ IF r = None
              THEN End(p, "panic") /\ UNCHANGED mute
              ELSE /\ mute' = [mute EXCEPT ![p] = r[1]]
                   /\ Goto(p, "get_volume")
                   /\ UNCHANGED lockHeld
    /\ UNCHANGED << content, content0, task, vol_pct, channels, old_id,
                    notif_cmd, notif_out, new_id, fx >>

\* Lines 132-133: pactl get-sink-volume and parse_volume. The report is kept
\* as the percentages its matching lines carry; trimming the report changes
\* none of them.
QueryVolume(p) ==
    /\ pc[p] = "get_volume"
    /\ \E run \in ChildRuns, out \in VolumeOutputs :
           LET r == run_or_die(run, <<>>)
               v == parse_volume(out)
           IN
           /\ Started(p, "get-sink-volume", run)
           /\ IF r = None \/ v = None
              THEN End(p, "panic") /\ UNCHANGED <<vol_pct, channels>>
              ELSE /\ vol_pct' = [vol_pct EXCEPT ![p] = Some(v[1][1])]
                   /\ channels' = [channels EXCEPT ![p] = v[1][2]]
                   /\ Goto(p, "open")
                   /\ UNCHANGED lockHeld
    /\ UNCHANGED << content, content0, task, mute, old_id, notif_cmd,
                    notif_out, new_id, fx >>

\* Lines 135-140: open the record, creating it when it is missing.
OpenDb(p) ==
    /\ pc[p] = "open"
    /\ \E ok \in BOOLEAN :
           IF ok THEN Goto(p, "lock_shared") /\ UNCHANGED lockHeld
           ELSE End(p, "err")
    /\ UNCHANGED << content, content0, task, mute, vol_pct, channels, old_id,
                    notif_cmd, notif_out, new_id, runs, badExit, fx >>

\* Line 141: db.lock_shared()?, granted at once or waited for while another
\* invocation holds the exclusive lock.
LockShared(p) ==
    /\ pc[p] = "lock_shared"
    /\ \E ok \in BOOLEAN :
           IF ~ok THEN End(p, "err")
           ELSE IF Conflicts(p, "shared")
                THEN Goto(p, "wait_shared") /\ UNCHANGED lockHeld
                ELSE /\ lockHeld' = [lockHeld EXCEPT ![p] = "shared"]
                     /\ Goto(p, "read_shared")
    /\ UNCHANGED << content, content0, task, mute, vol_pct, channels, old_id,
                    notif_cmd, notif_out, new_id, runs, badExit, fx >>

\* Line 141, the wait: the shared lock is granted once nobody holds the
\* exclusive lock.
GrantShared(p) ==
    /\ pc[p] = "wait_shared"
    /\ ~Conflicts(p, "shared")
    /\ lockHeld' = [lockHeld EXCEPT ![p] = "shared"]
    /\ Goto(p, "read_shared")
    /\ UNCHANGED << content, content0, task, mute, vol_pct, channels, old_id,
                    notif_cmd, notif_out, new_id, runs, badExit, fx >>

\* Line 144: read_db under the shared lock.
ReadShared(p) ==
    /\ pc[p] = "read_shared"
    /\ \E ok \in BOOLEAN :
           LET r == read_db(content) IN
           IF ~ok THEN End(p, "err") /\ UNCHANGED old_id
           ELSE IF r = None THEN End(p, "panic") /\ UNCHANGED old_id
           ELSE IF r[1] # None
                THEN /\ old_id' = [old_id EXCEPT ![p] = r[1]]
                     /\ Goto(p, "notify")
                     /\ UNCHANGED lockHeld
                ELSE /\ Goto(p, "lock_excl")
                     /\ UNCHANGED <<lockHeld, old_id>>
    /\ UNCHANGED << content, content0, task, mute, vol_pct, channels,
                    notif_cmd, notif_out, new_id, runs, badExit, fx >>

\* A conversion that keeps the shared lock while it waits for the exclusive one.
LockExcl_KeepShared(p) ==
    /\ pc[p] = "lock_excl"
    /\ \E ok \in BOOLEAN :
           IF ~ok THEN End(p, "err")
           ELSE IF Conflicts(p, "exclusive")
                THEN /\ UNCHANGED lockHeld
                     /\ Goto(p, "wait_excl")
                ELSE /\ lockHeld' = [lockHeld EXCEPT ![p] = "exclusive"]
                     /\ Goto(p, "read_excl")
    /\ UNCHANGED << content, content0, task, mute, vol_pct, channels, old_id,
                    notif_cmd, notif_out, new_id, runs, badExit, fx >>

\* Line 147: db.lock()?. flock converts a lock by removing the one held and
\* then requesting the new one, which is granted at once or waited for.
LockExcl(p) ==
    /\ pc[p] = "lock_excl"
    /\ \E ok \in BOOLEAN :
           IF ~ok THEN End(p, "err")
           ELSE IF Conflicts(p, "exclusive")
                THEN /\ lockHeld' = [lockHeld EXCEPT ![p] = "none"]
                     /\ Goto(p, "wait_excl")
                ELSE /\ lockHeld' = [lockHeld EXCEPT ![p] = "exclusive"]
                     /\ Goto(p, "read_excl")
    /\ UNCHANGED << content, content0, task, mute, vol_pct, channels, old_id,
                    notif_cmd, notif_out, new_id, runs, badExit, fx >>

\* Line 147, the wait: the exclusive lock is granted once nobody holds a lock.
GrantExcl(p) ==
    /\ pc[p] = "wait_excl"
    /\ ~Conflicts(p, "exclusive")
    /\ lockHeld' = [lockHeld EXCEPT ![p] = "exclusive"]
    /\ Goto(p, "read_excl")
    /\ UNCHANGED << content, content0, task, mute, vol_pct, channels, old_id,
                    notif_cmd, notif_out, new_id, runs, badExit, fx >>

\* Line 148: read_db again, under the exclusive lock.
ReadExcl(p) ==
    /\ pc[p] = "read_excl"
    /\ \E ok \in BOOLEAN :
           LET r == read_escalated(content) IN
           IF ~ok THEN End(p, "err") /\ UNCHANGED old_id
           ELSE IF r = None THEN End(p, "panic") /\ UNCHANGED old_id
           ELSE /\ old_id' = [old_id EXCEPT ![p] = r[1]]
                /\ Goto(p, "notify")
                /\ UNCHANGED lockHeld
    /\ UNCHANGED << content, content0, task, mute, vol_pct, channels,
                    notif_cmd, notif_out, new_id, runs, badExit, fx >>

\* Lines 151-169: build and run the notification command, parse its output,
\* and return at once when there was an old identity.
Notify(p) ==
    /\ pc[p] = "notify"
    /\ \E run \in ChildRuns, out \in NotifyOutputs :
           LET cmd == build_notif_cmd(mute[p], vol_pct[p][1], channels[p], old_id[p])
               r == run_or_die(run, out)
               id == IF r = None THEN None ELSE ParseI32(r[1])
           IN
           /\ Started(p, "notify-send", run)
           /\ notif_cmd' = [notif_cmd EXCEPT ![p] = IF run.launched THEN cmd ELSE @]
           /\ notif_out' = [notif_out EXCEPT ![p] = IF run.launched THEN Some(out) ELSE @]
           /\ new_id' = [new_id EXCEPT ![p] = id]
           /\ IF id = None THEN End(p, "panic")
              ELSE IF writes_db(old_id[p]) THEN Goto(p, "set_len") /\ UNCHANGED lockHeld
              ELSE End(p, "done")
    /\ UNCHANGED << content, content0, task, mute, vol_pct, channels, old_id, fx >>

\* Line 85: db.set_len(0)?
SetLen(p) ==
    /\ pc[p] = "set_len"
    /\ \E ok \in BOOLEAN :
           IF ok
           THEN /\ content' = set_len0(content)
                /\ Goto(p, "write")
                /\ UNCHANGED lockHeld
           ELSE End(p, "err") /\ UNCHANGED content
    /\ UNCHANGED << content0, task, mute, vol_pct, channels, old_id,
                    notif_cmd, notif_out, new_id, runs, badExit, fx >>

\* Line 86: the first write of write!(db, "{}", contents), and the return
\* from main when it was the only one.
Write(p) ==
    /\ pc[p] = "write"
    /\ \E ok \in BOOLEAN :
           LET pieces == FormatPieces(new_id[p][1]) IN
           IF ok
           THEN /\ content' = append(content, pieces[1])
                /\ IF Len(pieces) > 1
                   THEN Goto(p, "write_rest") /\ UNCHANGED lockHeld
                   ELSE End(p, "done")
           ELSE End(p, "err") /\ UNCHANGED content
    /\ UNCHANGED << content0, task, mute, vol_pct, channels, old_id,
                    notif_cmd, notif_out, new_id, runs, badExit, fx >>

\* Line 86: the second write, of the digits after a sign.
WriteRest(p) ==
    /\ pc[p] = "write_rest"
    /\ \E ok \in BOOLEAN :
           LET pieces == FormatPieces(new_id[p][1]) IN
           IF ok
           THEN /\ content' = append(content, pieces[2])
                /\ End(p, "done")
           ELSE End(p, "err") /\ UNCHANGED content
    /\ UNCHANGED << content0, task, mute, vol_pct, channels, old_id,
                    notif_cmd, notif_out, new_id, runs, badExit, fx >>

Step(p) ==
    \/ RunAction(p)
    \/ QueryMute(p)
    \/ QueryVolume(p)
    \/ OpenDb(p)
    \/ LockShared(p)
    \/ GrantShared(p)
    \/ ReadShared(p)
    \/ LockExcl(p)
    \/ GrantExcl(p)
    \/ ReadExcl(p)
    \/ Notify(p)
    \/ SetLen(p)
    \/ Write(p)
    \/ WriteRest(p)

Next == \E p \in Procs : Step(p)

Spec == Init /\ [][Next]_vars

\* Every invocation that can take a step eventually takes one: the operating
\* system schedules every process, every child process terminates, and a
\* requested lock is granted once no conflicting lock is held.
FairSpec == Spec /\ \A p \in Procs : WF_vars(Step(p))

SpecExit == ExitInit /\ [][Next]_vars

(***************************************************************************)
(* get_icon on its own: every mute text and percentage of the bounds.      *)
(***************************************************************************)
\* The largest percentage get_icon is applied to.
MaxPercent == 100

IconMuteTexts == { MuteYes, MuteNo, <<"Mute: yes", "!">>, <<>> }

IconInit ==
    /\ content0 = <<>>
    /\ content = content0
    /\ task = [p \in Procs |-> "noop"]
    /\ NotStarted
    /\ badExit = <<>>
    /\ \E m \in IconMuteTexts, n \in 0..MaxPercent :
           fx = [fn |-> "get_icon", mutestr |-> m, percent |-> n, result |-> None]

IconApply ==
    /\ fx.result = None
    /\ fx' = [fx EXCEPT !.result = Some(get_icon(fx.mutestr, fx.percent))]
    /\ UNCHANGED mainVars

SpecIcon == IconInit /\ [][IconApply]_vars

(***************************************************************************)
(* write_db and then read_db on one file, on their own.                    *)
(***************************************************************************)
\* The identifiers written are -MaxDbId..MaxDbId, 42 and the ends of i32.
MaxDbId == 12

\* The longest content the file holds before write_db.
MaxPriorLen == 2

DbIds == (-MaxDbId..MaxDbId) \cup {42, I32Min, I32Max}

\* write_db is called on a file read_db has just read as None: one that holds
\* nothing but whitespace.
PriorContents ==
    UNION { [1..k -> Whitespace] : k \in 0..MaxPriorLen }

DbInit ==
    /\ content0 = <<>>
    /\ content = content0
    /\ task = [p \in Procs |-> "noop"]
    /\ NotStarted
    /\ badExit = <<>>
    /\ \E n \in DbIds, c \in PriorContents :
           fx = [fn |-> "write_db", n |-> n, prior |-> c, file |-> c,
                 at |-> "set_len", written |-> 0, back |-> None]

\* Line 85.
DbSetLen ==
    /\ fx.at = "set_len"
    /\ fx' = [fx EXCEPT !.file = set_len0(@), !.at = "write"]
    /\ UNCHANGED mainVars

\* Line 86, one write per piece of the formatted integer.
DbWrite ==
    /\ fx.at = "write"
    /\ LET pieces == FormatPieces(fx.n) IN
       fx' = [fx EXCEPT !.file = append(@, pieces[fx.written + 1]),
                        !.written = @ + 1,
                        !.at = IF fx.written + 1 = Len(pieces)
                               THEN "read" ELSE "write"]
    /\ UNCHANGED mainVars

\* Lines 73-81 on the file just written.
DbRead ==
    /\ fx.at = "read"
    /\ fx' = [fx EXCEPT !.back = read_db(fx.file), !.at = "end"]
    /\ UNCHANGED mainVars

DbNext == DbSetLen \/ DbWrite \/ DbRead

SpecDb == DbInit /\ [][DbNext]_vars

(***************************************************************************)
(* The record steps of main(), lines 135-169, on records of many contents.  *)
(***************************************************************************)
Pads == { <<>>, <<" ">>, <<"\n">> }

\* Texts a record may hold between leading and trailing whitespace.
PaddedCores == { <<"7">>, <<"-", "7">>, <<"x">> }

\* Texts a record may hold as they are.
ReadCores ==
    { <<>>, <<"\n">>, <<" ", "\n">>,
      <<"0", "7">>, <<"+", "7">>, <<"-", "0">>,
      <<"-">>, <<"+">>, <<"7", "x">>, <<"7", " ", "7">>,
      <<"-", "-", "7">>, <<"7", "-">>, <<"7", ".", "0">>,
      <<"1", "0", "0", "0", "0", "0", "0", "0", "0", "0">>,
      <<"0", "2", "1", "4", "7", "4", "8", "3", "6", "4", "7">>,
      <<"2", "1", "4", "7", "4", "8", "3", "6", "4", "7">>,
      <<"2", "1", "4", "7", "4", "8", "3", "6", "4", "8">>,
      <<"-", "2", "1", "4", "7", "4", "8", "3", "6", "4", "8">>,
      <<"-", "2", "1", "4", "7", "4", "8", "3", "6", "4", "9">>,
      <<"4", "2", "9", "4", "9", "6", "7", "2", "9", "5">> }

ReadContents ==
    ReadCores \cup { a \o c \o b : a \in Pads, c \in PaddedCores, b \in Pads }

\* Every invocation has run its three audio commands (lines 129-133) and is
\* about to open the record.
ReadInit ==
    /\ content0 \in ReadContents
    /\ content = content0
    /\ task = [p \in Procs |-> Consumed]
    /\ lockHeld = [p \in Procs |-> "none"]
    /\ pc = [p \in Procs |-> "open"]
    /\ mute = [p \in Procs |-> MuteNo]
    /\ vol_pct = [p \in Procs |-> Some(60)]
    /\ channels = [p \in Procs |-> <<50, 70>>]
    /\ old_id = [p \in Procs |-> None]
    /\ notif_cmd = [p \in Procs |-> <<>>]
    /\ notif_out = [p \in Procs |-> None]
    /\ new_id = [p \in Procs |-> None]
    /\ runs = [p \in Procs |-> <<"action", "get-sink-mute", "get-sink-volume">>]
    /\ badExit = <<>>
    /\ fx = <<>>

RecordStep(p) ==
    \/ OpenDb(p)
    \/ LockShared(p)
    \/ GrantShared(p)
    \/ ReadShared(p)
    \/ LockExcl(p)
    \/ GrantExcl(p)
    \/ ReadExcl(p)
    \/ Notify(p)
    \/ SetLen(p)
    \/ Write(p)
    \/ WriteRest(p)

ReadNext == \E p \in Procs : RecordStep(p)

SpecRead == ReadInit /\ [][ReadNext]_vars

(***************************************************************************)
(* main() from line 132 on, on volume reports of many channel lists and a   *)
(* record that holds an identity.                                           *)
(***************************************************************************)
\* The most channel lines a volume report has.
MaxChannels == 3

ChannelPercents == {0, 1, 33, 50, 70, 100}

VolumeLists == UNION { [1..k -> ChannelPercents] : k \in 0..MaxChannels }

\* Invocation 1 has run its action command and the mute query and is about to
\* query the volume; every other invocation was turned away at line 129 for
\* its task name.
VolumeInit ==
    /\ content0 = <<"5">>
    /\ content = content0
    /\ task = [p \in Procs |-> Consumed]
    /\ lockHeld = [p \in Procs |-> "none"]
    /\ pc = [p \in Procs |-> IF p = 1 THEN "get_volume" ELSE "exit1"]
    /\ mute = [p \in Procs |-> IF p = 1 THEN MuteNo ELSE <<>>]
    /\ vol_pct = [p \in Procs |-> None]
    /\ channels = [p \in Procs |-> <<>>]
    /\ old_id = [p \in Procs |-> None]
    /\ notif_cmd = [p \in Procs |-> <<>>]
    /\ notif_out = [p \in Procs |-> None]
    /\ new_id = [p \in Procs |-> None]
    /\ runs = [p \in Procs |-> IF p = 1 THEN <<"action", "get-sink-mute">> ELSE <<>>]
    /\ badExit = <<>>
    /\ \E l \in VolumeLists : fx = [fn |-> "parse_volume", pcts |-> l]

\* Lines 132-133 on the report fx.pcts.
VolumeQuery(p) ==
    /\ pc[p] = "get_volume"
    /\ \E run \in ChildRuns :
           LET r == run_or_die(run, <<>>)
               v == parse_volume(fx.pcts)
           IN
           /\ Started(p, "get-sink-volume", run)
           /\ IF r = None \/ v = None
              THEN End(p, "panic") /\ UNCHANGED <<vol_pct, channels>>
              ELSE /\ vol_pct' = [vol_pct EXCEPT ![p] = Some(v[1][1])]
                   /\ channels' = [channels EXCEPT ![p] = v[1][2]]
                   /\ Goto(p, "open")
                   /\ UNCHANGED lockHeld
    /\ UNCHANGED << content, content0, task, mute, old_id, notif_cmd,
                    notif_out, new_id, fx >>

\* The steps main() takes from line 132 on when the record holds an identity.
VolumeStep(p) ==
    \/ VolumeQuery(p)
    \/ OpenDb(p)
    \/ LockShared(p)
    \/ ReadShared(p)
    \/ Notify(p)

VolumeNext == \E p \in Procs : VolumeStep(p)

SpecVolume == VolumeInit /\ [][VolumeNext]_vars

(***************************************************************************)
(* Lines 165-167 and a later read_db, on their own: the notification tool's *)
(* reply is parsed, written to an empty record and read back.               *)
(***************************************************************************)
\* The tool's replies are 0..MaxToolId, some larger and some negative numbers.
MaxToolId == 20

IdOutputs ==
    { Format(n) \o <<"\n">> : n \in (0..MaxToolId) \cup {I32Max, -1, -3, I32Min} }
        \cup { <<"2", "1", "4", "7", "4", "8", "3", "6", "4", "8", "\n">>,
               <<"4", "2", "9", "4", "9", "6", "7", "2", "9", "5", "\n">> }

IdInit ==
    /\ content0 = <<>>
    /\ content = content0
    /\ task = [p \in Procs |-> "noop"]
    /\ NotStarted
    /\ badExit = <<>>
    /\ \E o \in IdOutputs :
           fx = [fn |-> "new_id", out |-> o, n |-> 0, file |-> <<>>,
                 at |-> "parse", written |-> 0, back |-> None]

\* Line 165: the trimmed reply, parsed as i32; a panic when that fails.
IdParse ==
    /\ fx.at = "parse"
    /\ LET id == ParseI32(Trim(fx.out)) IN
       fx' = IF id = None
             THEN [fx EXCEPT !.at = "panic"]
             ELSE [fx EXCEPT !.n = id[1], !.at = "set_len"]
    /\ UNCHANGED mainVars

IdNext == IdParse \/ DbSetLen \/ DbWrite \/ DbRead

SpecId == IdInit /\ [][IdNext]_vars

(***************************************************************************)
(* Properties                                                              *)
(***************************************************************************)
DoneProcs == { p \in Procs : pc[p] = "done" }

\* Every invocation has ended and none of them failed after its task was
\* accepted: each is done, or was turned away at line 129 for its task name.
NoneFailed == \A p \in Procs : pc[p] \in {"done", "exit1"}

\* C1: when the record starts empty and N >= 1 concurrent invocations all run
\* to the end without failing, exactly one of them obtained old_id = None, the
\* record holds the identifier that one got from the notification tool, and
\* every other invocation obtained old_id = Some of that identifier.
C1_OneFirstWriter ==
    (content0 = <<>> /\ NoneFailed /\ DoneProcs # {}) =>
        \E w \in DoneProcs :
            /\ old_id[w] = None
            /\ content = Format(new_id[w][1])
            /\ \A q \in DoneProcs \ {w} : old_id[q] = Some(new_id[w][1])

\* Two invocations ran to the end on an empty record: one wrote, one replaced.
C1_Witness ==
    /\ content0 = <<>>
    /\ NoneFailed
    /\ \E w, q \in DoneProcs : old_id[w] = None /\ old_id[q] # None

\* No invocation has failed so far: none panicked, none returned an Err.
NoFailureYet == \A p \in Procs : pc[p] \notin {"panic", "err"}

\* The invocations whose notification command was started.
Sent == { p \in Procs : notif_cmd[p] # <<>> }

\* The argument after -r, if the command carries the replace flag.
ReplaceArg(cmd) ==
    IF \E i \in 1..(Len(cmd) - 1) : cmd[i] = <<"-r">>
    THEN Some(cmd[(CHOOSE i \in 1..(Len(cmd) - 1) : cmd[i] = <<"-r">>) + 1])
    ELSE None

\* C2: on a record that starts empty, as long as no invocation has failed,
\* the notifications sent so far are one without the replace flag and all the
\* others with -r and the identifier that one notification returned.
C2_OneFreshNotification ==
    (content0 = <<>> /\ NoFailureYet /\ Sent # {}) =>
        \E w \in Sent :
            /\ ReplaceArg(notif_cmd[w]) = None
            /\ \A q \in Sent \ {w} :
                   /\ new_id[w] # None
                   /\ ReplaceArg(notif_cmd[q]) = Some(Format(new_id[w][1]))

\* Two notifications were sent on an empty record, the second one replacing
\* the first.
C2_Witness ==
    /\ content0 = <<>>
    /\ NoFailureYet
    /\ \E w, q \in Sent :
           ReplaceArg(notif_cmd[w]) = None /\ ReplaceArg(notif_cmd[q]) # None

\* The record holds an identity: read_db yields Some(v).
HoldsIdentity(c) == read_db(c) # None /\ read_db(c)[1] # None

\* The invocations that ran write_db to its end.
Writers == { p \in Procs : pc[p] = "done" /\ old_id[p] = None }

\* C3: once the record holds an identity its content never changes again,
\* whatever the invocations do and however they end; the record is changed
\* only while it holds no identity, and at most one invocation ever completes
\* a write.
C3_WrittenOnce ==
    /\ [][HoldsIdentity(content) => content' = content]_vars
    /\ [](Cardinality(Writers) <= 1)

\* The record holds what one invocation wrote, and another invocation has
\* read that identity and ended, normally or not.
C3_Witness ==
    \E w \in Writers : \E q \in Procs \ {w} :
        /\ HoldsIdentity(content)
        /\ pc[q] \in {"done", "panic"}
        /\ old_id[q] = new_id[w]

\* C4: an invocation is in write_db only if its read returned None; when it
\* ends normally after a read of None, its notification carried no replace
\* flag and the record went from no identity to the identifier the tool
\* returned to it; when it ends normally after a read of Some(id), its
\* notification carried -r id and no step of it changed the record.
C4_WriteIffNone ==
    /\ [](\A p \in Procs :
            /\ pc[p] \in {"set_len", "write", "write_rest"} => old_id[p] = None
            /\ pc[p] = "set_len" => ~HoldsIdentity(content)
            /\ (pc[p] = "done" /\ old_id[p] = None) =>
                   /\ ReplaceArg(notif_cmd[p]) = None
                   /\ content = Format(new_id[p][1])
            /\ (pc[p] = "done" /\ old_id[p] # None) =>
                   ReplaceArg(notif_cmd[p]) = Some(Format(old_id[p][1])))
    /\ [][\A p \in Procs :
            (pc[p] # pc'[p] /\ old_id'[p] # None) => content' = content]_vars

\* One invocation wrote after reading None and another replaced after reading
\* Some(id).
C4_Witness ==
    \E w, q \in DoneProcs :
        /\ old_id[w] = None
        /\ old_id[q] # None
        /\ content = Format(old_id[q][1])

\* C5: an invocation one of whose child processes exited with a non-zero
\* status has been aborted with a non-zero exit status of its own, so that no
\* later step of it runs.
C5_AbortOnNonZeroExit ==
    \A p \in DOMAIN badExit :
        badExit[p] => (pc[p] \in Ended /\ ExitCode(p) # 0)

\* C6: an invocation whose task is none of up, down, mute, noop leaves line
\* 129 by exiting non-zero, having started no child process and with the
\* record and every lock as they were; it never starts one or takes a lock
\* afterwards.
C6_UnknownTaskExits ==
    /\ [][\A p \in Procs :
            (pc[p] = "start" /\ pc'[p] # "start" /\ task[p] \notin KnownTasks) =>
                /\ pc'[p] = "exit1"
                /\ runs'[p] = <<>>
                /\ content' = content
                /\ lockHeld' = lockHeld]_vars
    /\ [](\A p \in Procs :
            pc[p] = "exit1" =>
                runs[p] = <<>> /\ lockHeld[p] = "none" /\ ExitCode(p) # 0)

\* One invocation was turned away for its task while another ran to the end.
C6_Witness ==
    \E p, q \in Procs : pc[p] = "exit1" /\ pc[q] = "done" /\ runs[p] = <<>>

\* C7: an ended invocation holds no lock, however it ended, and every
\* invocation waiting for the shared or the exclusive lock is eventually
\* granted it: a wait ends only with the lock waited for, and no invocation
\* waits for ever.
C7_LocksReleased ==
    /\ [](\A p \in Procs : pc[p] \in Ended => lockHeld[p] = "none")
    /\ [][\A p \in Procs :
            /\ (pc[p] = "wait_shared" /\ pc'[p] # pc[p]) => lockHeld'[p] = "shared"
            /\ (pc[p] = "wait_excl" /\ pc'[p] # pc[p]) => lockHeld'[p] = "exclusive"]_vars
    /\ <>[](\A p \in Procs : pc[p] \notin {"wait_shared", "wait_excl"})

\* An invocation died on an unparsable notification identifier while it held
\* the exclusive lock, and another one was granted the exclusive lock since.
C7_Witness ==
    \E p, q \in Procs :
        /\ pc[p] = "panic"
        /\ old_id[p] = None
        /\ notif_out[p] = Some(<<>>)
        /\ lockHeld[q] = "exclusive"

\* C8: the icon is the muted one when the mute text is "Mute: yes" or the
\* percentage is 0, and otherwise the low one up to 32, the medium one from
\* 33 to 65 and the high one from 66.
C8_IconSelection ==
    fx.result # None =>
        fx.result =
            Some(IF fx.mutestr = <<"Mute: yes">> \/ fx.percent = 0
                 THEN "audio-volume-muted"
                 ELSE IF fx.percent \in 1..32 THEN "audio-volume-low"
                 ELSE IF fx.percent \in 33..65 THEN "audio-volume-medium"
                 ELSE "audio-volume-high")

\* The icon for 33 percent, not muted, was selected.
C8_Witness ==
    /\ fx.result = Some("audio-volume-medium")
    /\ fx.percent = 33
    /\ fx.mutestr # MuteYes

\* C9: after write_db(n) the file holds the decimal text of n and nothing
\* else, whatever it held before, and read_db then yields Some(n).
C9_RoundTrip ==
    /\ fx.at \in {"read", "end"} => fx.file = Format(fx.n)
    /\ fx.at = "end" => fx.back = Some(Some(fx.n))

\* 42 was written over a file holding a newline and read back.
C9_Witness ==
    /\ fx.at = "end"
    /\ fx.n = 42
    /\ fx.prior = <<"\n">>
    /\ fx.back = Some(Some(42))

\* A text made of decimal digits only.
NonNegText(t) == t # <<>> /\ \A i \in 1..Len(t) : IsDigit(t[i])

\* Every notification command run so far printed a non-negative integer.
ToolReturnsNonNeg ==
    \A p \in Procs : notif_out[p] # None => NonNegText(Trim(notif_out[p][1]))

\* C10: when the record starts empty and the notification tool prints
\* non-negative integers, the record is empty or holds exactly the digits of
\* one identifier the tool returned.
C10_SingleIdentity ==
    (content0 = <<>> /\ ToolReturnsNonNeg) =>
        \/ content = <<>>
        \/ /\ NonNegText(content)
           /\ \E p \in Procs :
                  /\ new_id[p] # None
                  /\ new_id[p][1] >= 0
                  /\ content = Format(new_id[p][1])

\* Two different identifiers were returned and the record holds one of them.
C10_Witness ==
    /\ content0 = <<>>
    /\ ToolReturnsNonNeg
    /\ content # <<>>
    /\ \E p, q \in Procs : new_id[p] # None /\ new_id[q] # None /\ new_id[p] # new_id[q]

\* The invocations that are inside write_db.
InWriteDb == { p \in Procs : pc[p] \in {"set_len", "write", "write_rest"} }

\* Nobody but p holds a lock on the record.
OnlyHolder(p) == \A q \in Procs \ {p} : lockHeld[q] = "none"

\* C11: an invocation inside write_db holds the exclusive lock and nobody else
\* holds any lock; the exclusive lock is obtained only by the escalation of
\* line 147 and is given up only when its holder ends; whoever holds the
\* exclusive lock is the only holder of a lock, so there is at most one.
C11_WriteUnderExclusive ==
    /\ [](\A p \in InWriteDb : lockHeld[p] = "exclusive" /\ OnlyHolder(p))
    /\ [](\A p \in Procs : lockHeld[p] = "exclusive" => OnlyHolder(p))
    /\ [][\A p \in Procs :
            /\ (lockHeld[p] # "exclusive" /\ lockHeld'[p] = "exclusive") =>
                   (pc[p] \in {"lock_excl", "wait_excl"} /\ pc'[p] = "read_excl")
            /\ (lockHeld[p] = "exclusive" /\ lockHeld'[p] # "exclusive") =>
                   pc'[p] \in Ended]_vars

\* One invocation is writing the record while another waits for a lock on it.
C11_Witness ==
    \E p, q \in Procs :
        /\ pc[p] = "write"
        /\ content = <<>>
        /\ pc[q] \in {"wait_shared", "wait_excl"}

\* The record is not read as empty: something is left of it after trimming.
Populated(c) == Trim(c) # <<>>

\* The steps of the escalation: requesting, waiting for and reading under the
\* exclusive lock.
EscalationSteps == {"lock_excl", "wait_excl", "read_excl"}

\* C12: the first lock an invocation takes is the shared one and both reads
\* happen under a lock, the first under the shared one; the exclusive lock is
\* requested only from a read under the shared lock that found the record
\* empty; an invocation that holds the shared lock after its read has the value
\* it found and goes on to the notification, never to the escalation; the
\* exclusive lock never becomes a shared one. When the record is populated
\* before the invocations open it, no invocation ever requests or holds the
\* exclusive lock and none waits for a lock.
C12_LockOrder ==
    /\ [](\A p \in Procs :
            /\ pc[p] = "read_shared" => lockHeld[p] = "shared"
            /\ pc[p] = "read_excl" => lockHeld[p] = "exclusive"
            /\ pc[p] \in {"start", "get_mute", "get_volume", "open", "lock_shared",
                           "wait_shared"} => lockHeld[p] = "none"
            /\ (pc[p] = "notify" /\ lockHeld[p] = "shared") => old_id[p] # None)
    /\ [][\A p \in Procs :
            /\ (lockHeld[p] = "none" /\ lockHeld'[p] = "exclusive") =>
                   pc[p] = "wait_excl"
            /\ (pc[p] # "lock_excl" /\ pc'[p] = "lock_excl") =>
                   (pc[p] = "read_shared" /\ lockHeld[p] = "shared" /\ ~Populated(content))
            /\ (pc[p] = "read_shared" /\ Populated(content)) =>
                   pc'[p] \in {"read_shared", "notify", "panic", "err"}
            /\ pc[p] = "notify" => pc'[p] \notin EscalationSteps
            /\ lockHeld[p] = "exclusive" => lockHeld'[p] # "shared"]_vars
    /\ [](Populated(content0) =>
            \A p \in Procs :
                /\ pc[p] \notin EscalationSteps \cup {"wait_shared"}
                /\ lockHeld[p] # "exclusive")

\* Every invocation holds the shared lock on a record that held 5 from the
\* start, each about to replace notification 5.
C12_Witness ==
    /\ content0 = <<"5">>
    /\ \A p \in Procs :
           pc[p] = "notify" /\ lockHeld[p] = "shared" /\ old_id[p] = Some(5)

\* The steps at which an invocation acts on the old_id it obtained: building
\* and sending the notification, and entering write_db.
ActingSteps == {"notify", "set_len"}

\* The steps from a first writer's re-read to the end of its write.
FirstWriter(p) ==
    \/ pc[p] = "notify" /\ old_id[p] = None
    \/ p \in InWriteDb

\* C13: while an invocation acts on old_id, from the return of the read with
\* escalation to its first change of the record, the record reads as old_id
\* (as empty for None, as v for Some(v)); the re-read under the exclusive lock
\* returns what the record holds at that moment; and from a first writer's
\* re-read to the end of its write no other invocation is at a read or inside
\* write_db.
C13_NeverStale ==
    /\ [](\A p \in Procs :
            pc[p] \in ActingSteps => read_db(content) = Some(old_id[p]))
    /\ [][\A p \in Procs :
            (pc[p] = "read_excl" /\ pc'[p] = "notify") =>
                (content' = content /\ read_db(content) = Some(old_id'[p]))]_vars
    /\ [](\A p \in Procs :
            FirstWriter(p) =>
                \A q \in Procs \ {p} :
                    pc[q] \notin {"read_shared", "read_excl"} /\ q \notin InWriteDb)

\* An invocation that saw an empty record under the shared lock holds, after
\* its re-read under the exclusive lock, the identifier another one wrote in
\* the meantime.
C13_Witness ==
    \E p, q \in Procs :
        /\ content0 = <<>>
        /\ pc[p] = "notify"
        /\ lockHeld[p] = "exclusive"
        /\ old_id[p] # None
        /\ old_id[p] = new_id[q]
        /\ pc[q] = "done"

\* The invocations that hold the shared lock on a record that reads as empty
\* and are reading it or about to request the exclusive lock.
Escalating ==
    { p \in Procs : /\ lockHeld[p] = "shared"
                    /\ pc[p] \in {"read_shared", "lock_excl"}
                    /\ ~Populated(content) }

\* C14: from a state in which two or more invocations hold the shared lock on
\* a record that reads as empty, every invocation eventually ends; and a
\* request for the exclusive lock is left only by being granted it, at once or
\* after a wait, or by an I/O error of the request, so that each of those
\* requests has been granted by then unless it failed.
C14_NoEscalationDeadlock ==
    /\ [][\A p \in Procs :
            (pc[p] \in {"lock_excl", "wait_excl"} /\ pc'[p] # pc[p]) =>
                \/ lockHeld'[p] = "exclusive" /\ pc'[p] = "read_excl"
                \/ pc[p] = "lock_excl" /\ pc'[p] = "wait_excl"
                \/ pc[p] = "lock_excl" /\ pc'[p] = "err"]_vars
    /\ (Cardinality(Escalating) >= 2) ~> (\A p \in Procs : pc[p] \in Ended)

\* Of two invocations that held the shared lock on an empty record at the same
\* time, one has given up its shared lock and waits for the exclusive one,
\* which the other has been granted.
C14_Witness ==
    \E p, q \in Procs :
        /\ pc[p] = "wait_excl" /\ lockHeld[p] = "none"
        /\ pc[q] = "read_excl" /\ lockHeld[q] = "exclusive"

\* The invocations that may still stand for a change of the record: those
\* inside write_db and those that completed it.
LiveWriters == InWriteDb \cup Writers

\* C15: an invocation that ends with a fatal error has left the record as it
\* was; so whenever no invocation is inside write_db and none has completed it,
\* every change so far would be one of a failed invocation, and the record
\* holds what it held before the first invocation started.
C15_FailureLeavesRecord == LiveWriters = {} => content = content0

\* The steps of main() in the order of its lines.
StepOrder ==
    << "start", "get_mute", "get_volume", "open", "lock_shared", "wait_shared",
       "read_shared", "lock_excl", "wait_excl", "read_excl", "notify",
       "set_len", "write", "write_rest" >>

Pos(step) == CHOOSE i \in 1..Len(StepOrder) : StepOrder[i] = step

\* The child processes of a whole invocation, in order.
ChildOrder == <<"action", "get-sink-mute", "get-sink-volume", "notify-send">>

IsPrefix(a, b) == Len(a) <= Len(b) /\ a = SubSeq(b, 1, Len(a))

\* The steps from the opening of the record on.
RecordSteps == { StepOrder[i] : i \in Pos("open")..Len(StepOrder) }

\* C16: an invocation only moves forward through the steps of main() or ends;
\* its child processes are started in the order action, mute query, volume
\* query, notification, each after the previous one returned; it is at the
\* opening of the record, or holds a lock on it, only after the three audio
\* commands have run; it sends the notification only after its read with
\* escalation, under the lock it took; and it is inside write_db only after the
\* notification tool's reply was parsed and only if old_id was None.
C16_StepOrder ==
    /\ [][\A p \in Procs :
            pc'[p] # pc[p] =>
                /\ pc[p] \notin Ended
                /\ pc'[p] \notin Ended => Pos(pc'[p]) > Pos(pc[p])
                /\ pc'[p] = "notify" => pc[p] \in {"read_shared", "read_excl"}
                /\ pc'[p] = "set_len" => pc[p] = "notify"]_vars
    /\ [](\A p \in Procs :
            /\ IsPrefix(runs[p], ChildOrder)
            /\ pc[p] = "get_mute" => runs[p] = SubSeq(ChildOrder, 1, 1)
            /\ pc[p] = "get_volume" => runs[p] = SubSeq(ChildOrder, 1, 2)
            /\ (pc[p] \in RecordSteps \/ lockHeld[p] # "none") =>
                   (Len(runs[p]) >= 3 /\ mute[p] # <<>> /\ vol_pct[p] # None)
            /\ Len(runs[p]) = 4 =>
                   ((p \in InWriteDb \/ pc[p] \in Ended) /\ notif_cmd[p] # <<>>)
            /\ p \in InWriteDb =>
                   (Len(runs[p]) = 4 /\ new_id[p] # None /\ old_id[p] = None))
    /\ [][\A p \in Procs :
            (notif_cmd[p] = <<>> /\ notif_cmd'[p] # <<>>) =>
                (pc[p] = "notify" /\ lockHeld[p] # "none")]_vars

\* An invocation went through every step, the escalation and the write
\* included, and ended normally.
C16_Witness ==
    \E p \in Procs :
        /\ pc[p] = "done"
        /\ runs[p] = ChildOrder
        /\ old_id[p] = None
        /\ content = Format(new_id[p][1])

\* The digits of a text, after its sign if it has one.
DigitsOf(t) == IF t # <<>> /\ Head(t) \in {"+", "-"} THEN Tail(t) ELSE t

\* An optional sign and then nothing but decimal digits, at least one.
IsIntegerText(t) ==
    /\ DigitsOf(t) # <<>>
    /\ \A i \in 1..Len(DigitsOf(t)) : IsDigit(DigitsOf(t)[i])

RECURSIVE StripZeros(_)
StripZeros(ds) ==
    IF Len(ds) > 1 /\ Head(ds) = "0" THEN StripZeros(Tail(ds)) ELSE ds

\* ds <= bound as numerals of the same length.
RECURSIVE NumeralLeq(_, _)
NumeralLeq(ds, bound) ==
    \/ ds = <<>>
    \/ DigitVal(Head(ds)) < DigitVal(Head(bound))
    \/ Head(ds) = Head(bound) /\ NumeralLeq(Tail(ds), Tail(bound))

\* The digits of 2^31 - 1 and of 2^31.
I32MaxDigits == <<"2", "1", "4", "7", "4", "8", "3", "6", "4", "7">>

I32MinDigits == <<"2", "1", "4", "7", "4", "8", "3", "6", "4", "8">>

\* The integer an integer text denotes lies in the range of i32.
InI32(t) ==
    LET ds == StripZeros(DigitsOf(t))
        bound == IF Head(t) = "-" THEN I32MinDigits ELSE I32MaxDigits
    IN  Len(ds) < 10 \/ (Len(ds) = 10 /\ NumeralLeq(ds, bound))

\* The number a numeral of at most 2^31 - 1 denotes, last digit first.
RECURSIVE NumeralValue(_)
NumeralValue(ds) ==
    IF ds = <<>> THEN 0
    ELSE NumeralValue(SubSeq(ds, 1, Len(ds) - 1)) * 10 + DigitVal(ds[Len(ds)])

\* The integer an integer text in the range of i32 denotes.
IntegerOf(t) ==
    LET ds == StripZeros(DigitsOf(t)) IN
    IF Head(t) # "-" THEN NumeralValue(ds)
    ELSE IF ds = I32MinDigits THEN I32Min
    ELSE -NumeralValue(ds)

\* What a read of a record of content c is to yield: "none", "some" with the
\* integer, or "fatal".
Expected(c) ==
    LET t == Trim(c) IN
    IF t = <<>> THEN [kind |-> "none", id |-> 0]
    ELSE IF IsIntegerText(t) /\ InI32(t) THEN [kind |-> "some", id |-> IntegerOf(t)]
    ELSE [kind |-> "fatal", id |-> 0]

\* C17: a read that got the record's content, at line 144 or at line 148,
\* yields None when the content is empty after trimming (the shared-lock read
\* then goes on to the escalation), Some(n) when the trimmed content is the
\* text of an integer n of the identity's type i32, and otherwise ends the
\* invocation with a panic at that read, the record unchanged and no
\* notification sent; an ended invocation takes no further step.
C17_ReadClassification ==
    [][\A p \in Procs :
        /\ (pc[p] \in {"read_shared", "read_excl"} /\ pc'[p] \notin {pc[p], "err"}) =>
               /\ content' = content
               /\ Expected(content).kind = "none" =>
                      IF pc[p] = "read_shared"
                      THEN pc'[p] = "lock_excl"
                      ELSE pc'[p] = "notify" /\ old_id'[p] = None
               /\ Expected(content).kind = "some" =>
                      (pc'[p] = "notify" /\ old_id'[p] = Some(Expected(content).id))
               /\ Expected(content).kind = "fatal" =>
                      (pc'[p] = "panic" /\ notif_cmd'[p] = <<>> /\ Len(runs'[p]) = 3)
        /\ pc[p] \in Ended =>
               (pc'[p] = pc[p] /\ notif_cmd'[p] = notif_cmd[p] /\ runs'[p] = runs[p])]_vars

\* An invocation that read an empty record under the shared lock met a
\* malformed one at its re-read and died there, having sent no notification.
C17_Witness ==
    \E p \in Procs :
        /\ Trim(content0) = <<>>
        /\ content = <<"-">>
        /\ pc[p] = "panic"
        /\ Len(runs[p]) = 3
        /\ vol_pct[p] # None
        /\ notif_cmd[p] = <<>>

\* The sum of a list, from its last element.
RECURSIVE Total(_)
Total(l) == IF l = <<>> THEN 0 ELSE Total(SubSeq(l, 1, Len(l) - 1)) + l[Len(l)]

\* floor(sum / count): the largest m with m * count <= sum.
MeanFloor(l) ==
    CHOOSE m \in 0..Total(l) :
        m * Len(l) <= Total(l) /\ Total(l) < (m + 1) * Len(l)

\* C18: an invocation that got past the volume query had a report with at
\* least one channel and holds floor(sum / count) of its percentages, 60 for
\* 50 and 70, and the icon of its notification is the one of that percentage;
\* on a report without a channel an invocation that ran the query has
\* panicked there, has sent no notification and holds no lock, and the record
\* is as it was.
C18_TruncatedMean ==
    \A p \in Procs :
        /\ pc[p] \notin {"get_volume", "panic", "exit1"} =>
               /\ fx.pcts # <<>>
               /\ vol_pct[p] = Some(MeanFloor(fx.pcts))
               /\ channels[p] = fx.pcts
               /\ fx.pcts = <<50, 70>> => vol_pct[p] = Some(60)
        /\ notif_cmd[p] # <<>> =>
               notif_cmd[p][6] = <<get_icon(MuteNo, MeanFloor(fx.pcts))>>
        /\ (fx.pcts = <<>> /\ pc[p] \notin {"get_volume", "exit1"}) =>
               /\ pc[p] = "panic"
               /\ vol_pct[p] = None
               /\ notif_cmd[p] = <<>>
               /\ Len(runs[p]) <= 3
               /\ lockHeld[p] = "none"
               /\ content = content0

\* An invocation whose report had the channels 1 and 70 ended normally after
\* a notification with the icon of 35 percent.
C18_Witness ==
    \E p \in Procs :
        /\ fx.pcts = <<1, 70>>
        /\ pc[p] = "done"
        /\ vol_pct[p] = Some(35)
        /\ notif_cmd[p][6] = <<"audio-volume-medium">>

\* C19: a reply that is the text of a non-negative integer, above 2^31 - 1
\* or not, is accepted, and once it has been written and read back the record
\* holds exactly its digits and the read returns that value; any other reply,
\* a negative number included, is never accepted or stored.
C19_IdentityWidth ==
    LET t == Trim(fx.out) IN
    /\ NonNegText(t) =>
           /\ fx.at # "panic"
           /\ fx.at = "end" =>
                  /\ fx.file = t
                  /\ fx.back # None
                  /\ fx.back[1] # None
                  /\ Format(fx.back[1][1]) = t
    /\ ~NonNegText(t) => fx.at \in {"parse", "panic"}

====
